---- MODULE Spec2Model ----
(***************************************************************************)
(* Backup / versioning subsystem of backup_system.py as a state machine.   *)
(*                                                                         *)
(* The file system is the state: the content root, the configured config   *)
(* files and the backup root (archive files, sidecar metadata files,       *)
(* directory backups, pre-restore snapshots, the restore staging           *)
(* directory).  create_backup and cleanup_old_backups are one action each  *)
(* (they run to completion on the calling thread); restore_backup is a     *)
(* sequence of steps, because its intermediate states matter.              *)
(*                                                                         *)
(* Strings that the code tests character by character (paths, exclusion    *)
(* tokens) are sequences of one-character strings.  A file is modelled by  *)
(* its byte length: 0 is "no such file", k > 0 a file of k bytes, and two  *)
(* files of equal length have equal contents.  An archive name             *)
(* backup_YYYYMMDD_HHMMSS is the number of its wall-clock second: the      *)
(* fixed-width format makes string order the order of these numbers.       *)
(***************************************************************************)
EXTENDS Integers, Sequences, FiniteSets, TLC

\* ------------------------------------------------------------ bounds
\* The last clock reading, in ticks.
MaxTime == 4
\* The most pieces a path given to should_exclude is put together from.
MaxSegs == 2
\* The largest CONFIG['max_backups'] tried.
MaxN == 2
\* The largest file, in bytes.
MaxSize == 2
\* How many create_backup calls, restore_backup calls and edits one run makes.
MaxOps == 3

\* Clock readings per wall-clock second (the name keeps whole seconds only).
TicksPerSec == 2

\* CONFIG['backup_interval'] hours, in ticks: scaled down to the shortest
\* interval that still lies a whole second above the polling period.
backup_interval == 2

\* time.sleep(60), in ticks: scaled down to one tick.
sleep_time == 1

\* ------------------------------------------------------------ strings
IsSubstring(pat, s) ==
    \E i \in 0..(Len(s) - Len(pat)) : SubSeq(s, i + 1, i + Len(pat)) = pat

Sep == <<"/">>

Join(a, b) == a \o Sep \o b

\* os.path.dirname(__file__): the project directory.
ProjectDir == <<"/", "w">>

content_dir == Join(ProjectDir, <<"c", "o", "n", "t", "e", "n", "t">>)

exclude_patterns ==
    << <<".", "g", "i", "t">>,
       <<"_", "_", "p", "y", "c", "a", "c", "h", "e", "_", "_">>,
       <<"*", ".", "p", "y", "c">>,
       <<"*", ".", "l", "o", "g">>,
       <<"b", "a", "c", "k", "u", "p", "s">> >>

should_exclude_prefix(path) ==
    \E k \in 1..Len(exclude_patterns) :
        /\ Len(exclude_patterns[k]) <= Len(path)
        /\ SubSeq(path, 1, Len(exclude_patterns[k])) = exclude_patterns[k]

should_exclude(path) ==
    \E k \in 1..Len(exclude_patterns) : IsSubstring(exclude_patterns[k], path)

\* ------------------------------------------------------------ trees
\* Files that may exist below the content root, by path relative to it.
FileA == <<"a", ".", "m", "d">>
FileG == <<".", "g", "i", "t", "/", "x">>
ContentFiles == {FileA, FileG}

\* A directory below the content root that holds no file.
EmptyDirs == {<<"d">>}

\* CONFIG['config_files'], in the order the loops take them.
config_files == <<"config.yaml", "netlify.toml">>

ConfigFiles == {config_files[i] : i \in 1..Len(config_files)}

Sizes == 0..MaxSize

NoFiles == [f \in ContentFiles |-> 0]

NoCfg == [c \in ConfigFiles |-> 0]

\* A directory tree: exists is FALSE when the directory itself is absent.
NoTree == [exists |-> FALSE, files |-> NoFiles, dirs |-> {}]

EmptyTree == [exists |-> TRUE, files |-> NoFiles, dirs |-> {}]

Present(files) == {f \in DOMAIN files : files[f] > 0}

RECURSIVE SumSizes(_, _)
SumSizes(files, S) ==
    IF S = {} THEN 0
    ELSE LET f == CHOOSE x \in S : TRUE
         IN  files[f] + SumSizes(files, S \ {f})

\* The directories on the way from the content root down to a file.
ParentDirs(rel) == {SubSeq(rel, 1, i - 1) : i \in {j \in 1..Len(rel) : rel[j] = "/"}}

\* os.walk(content_dir) with the pruning of excluded directories and the skip
\* of excluded files: the files create_backup writes into the archive.
\* A missing content root yields nothing.
WalkIncluded(tree) ==
    {f \in Present(tree.files) :
        /\ \A d \in ParentDirs(f) : ~should_exclude(Join(content_dir, d))
        /\ ~should_exclude(Join(content_dir, f))}

\* ------------------------------------------------------------ names, metadata
Sec(t) == t \div TicksPerSec

get_backup_filename(t) == Sec(t)

Names == 0..Sec(MaxTime)

\* The name list_backups gives the staging directory when it lists it.
TempName == 0 - 1

\* metadata.json / <name>_metadata.json.  seq is not in the file: it is the
\* position of the create_backup call that wrote it, kept for the statements
\* that speak of creation order.  form says how the file reads: "ok" as
\* json.dump wrote it, "unparsable" when open or json.load raises on it,
\* "no_timestamp" when it parses and holds no 'timestamp' key.
NoMeta ==
    [exists |-> FALSE, name |-> 0, timestamp |-> 0, file_count |-> 0,
     content_size |-> 0, seq |-> 0, form |-> "ok"]

NoZip == [exists |-> FALSE, content |-> NoFiles, cfg |-> NoCfg]

NoDir == [exists |-> FALSE, content |-> NoTree, cfg |-> NoCfg, meta |-> NoMeta]

NoTemp ==
    [exists |-> FALSE, content |-> NoTree, cfgdir |-> FALSE, cfg |-> NoCfg,
     rootcfg |-> NoCfg, meta |-> NoMeta]

\* ------------------------------------------------------------ list_backups
\* The backup_info records list_backups builds from one scan of the backup
\* root: an archive file with its sidecar, a directory with its metadata.json.
\* (z, s, d, t) are the archive files, the sidecars, the directory backups and
\* the staging directory.
\* json.load(f) inside the loop's try: an exception skips the entry.
json_load(m) == m.form # "unparsable"

\* item.endswith('.zip') and os.path.exists(metadata_path)
has_sidecar_any(z, s, n) == z[n].exists

has_sidecar(z, s, n) == z[n].exists /\ s[n].exists

Entries(z, s, d, t) ==
    {[kind |-> "zip", type |-> "compressed", name |-> n, metadata |-> s[n]] :
        n \in {m \in Names : has_sidecar(z, s, m) /\ json_load(s[m])}}
    \cup
    {[kind |-> "dir", type |-> "directory", name |-> n, metadata |-> d[n].meta] :
        n \in {m \in Names : d[m].exists /\ d[m].meta.exists
                                /\ json_load(d[m].meta)}}
    \cup
    (IF t.exists /\ t.meta.exists /\ json_load(t.meta)
     THEN {[kind |-> "temp", type |-> "directory", name |-> TempName,
            metadata |-> t.meta]}
     ELSE {})

NewestTs(S) ==
    CHOOSE m \in {e.metadata.timestamp : e \in S} :
        \A e \in S : e.metadata.timestamp <= m

\* The entries in any order, as os.listdir gives them.
RECURSIVE SortAnyOrder(_)
SortAnyOrder(S) ==
    IF S = {} THEN {<< >>}
    ELSE UNION {{<<e>> \o rest : rest \in SortAnyOrder(S \ {e})} : e \in S}

\* Every result backups.sort(key=timestamp, reverse=True) can give: the sort
\* is stable, so records of equal timestamp stay in the order os.listdir gave
\* them, which is any order.
RECURSIVE SortNewestFirst(_)
SortNewestFirst(S) ==
    IF S = {} THEN {<< >>}
    ELSE UNION {{<<e>> \o rest : rest \in SortNewestFirst(S \ {e})} :
                    e \in {x \in S : x.metadata.timestamp = NewestTs(S)}}

\* backups.sort(key=lambda x: x['metadata']['timestamp']) stands outside the
\* loop's try: a listed entry without the key makes list_backups raise KeyError.
list_raises(z, s, d, t) ==
    \E e \in Entries(z, s, d, t) : e.metadata.form = "no_timestamp"

\* What list_backups returns when it does not raise.
list_backups(z, s, d, t) == SortNewestFirst(Entries(z, s, d, t))

\* ------------------------------------------------------------ cleanup_old_backups
\* How the deletion of one selected entry ends: "ok"; "fail", the removal of
\* the payload (os.remove of the archive, shutil.rmtree of the directory)
\* raised and nothing was removed; "fail_sidecar", the archive was removed and
\* the removal of its sidecar raised.  A failure is logged and the loop goes on.
DelOutcomes == {"ok", "fail", "fail_sidecar"}

\* backups[-backups_to_delete:]
old_backups_keep_one_less(backups, limit) ==
    IF Len(backups) < limit THEN << >>
    ELSE SubSeq(backups, limit, Len(backups))

old_backups_keep_one_more(backups, limit) ==
    IF Len(backups) <= limit + 1 THEN << >>
    ELSE SubSeq(backups, limit + 2, Len(backups))

old_backups(backups, limit) ==
    IF Len(backups) <= limit THEN << >>
    ELSE LET backups_to_delete == Len(backups) - limit
             first == IF backups_to_delete >= Len(backups) THEN 1
                      ELSE Len(backups) - backups_to_delete + 1
         IN  SubSeq(backups, first, Len(backups))

\* One pass of the deletion loop body on the root r = [zips, sidecars, dirs, temp].
delete_backup_keeps_sidecar(r, backup, outcome) ==
    IF backup.type = "compressed"
    THEN IF outcome = "fail" THEN r
         ELSE [r EXCEPT !.zips[backup.name] = NoZip]
    ELSE IF outcome # "ok" THEN r
         ELSE IF backup.kind = "temp" THEN [r EXCEPT !.temp = NoTemp]
         ELSE [r EXCEPT !.dirs[backup.name] = NoDir]

delete_backup_sidecar_first(r, backup, outcome) ==
    IF backup.type = "compressed"
    THEN IF outcome = "fail_sidecar" THEN r
         ELSE [r EXCEPT !.sidecars[backup.name] = NoMeta,
                        !.zips[backup.name] =
                            IF outcome = "fail" THEN @ ELSE NoZip]
    ELSE IF outcome # "ok" THEN r
         ELSE IF backup.kind = "temp" THEN [r EXCEPT !.temp = NoTemp]
         ELSE [r EXCEPT !.dirs[backup.name] = NoDir]

delete_backup(r, backup, outcome) ==
    IF backup.type = "compressed"
    THEN IF outcome = "fail" THEN r
         ELSE [r EXCEPT !.zips[backup.name] = NoZip,
                        !.sidecars[backup.name] =
                            IF outcome = "fail_sidecar" THEN @ ELSE NoMeta]
    ELSE IF outcome # "ok" THEN r
         ELSE IF backup.kind = "temp" THEN [r EXCEPT !.temp = NoTemp]
         ELSE [r EXCEPT !.dirs[backup.name] = NoDir]

\* for backup in old_backups: try ... except Exception: log
RECURSIVE delete_all_stops_at_failure(_, _, _)
delete_all_stops_at_failure(r, old, outcomes) ==
    IF old = << >> THEN r
    ELSE IF Head(outcomes) # "ok" THEN delete_backup(r, Head(old), Head(outcomes))
    ELSE delete_all_stops_at_failure(delete_backup(r, Head(old), Head(outcomes)),
                                     Tail(old), Tail(outcomes))

RECURSIVE delete_all(_, _, _)
delete_all(r, old, outcomes) ==
    IF old = << >> THEN r
    ELSE delete_all(delete_backup(r, Head(old), Head(outcomes)), Tail(old),
                    Tail(outcomes))

\* Every result of cleanup_old_backups on the root r with the given limit:
\* the root it leaves, the entries it selected, those whose deletion raised,
\* whether a deletion raised and whether list_backups raised.  An exception
\* of list_backups is caught by the outer except: nothing is deleted.
cleanup_old_backups(r, limit) ==
    IF list_raises(r.zips, r.sidecars, r.dirs, r.temp)
    THEN {[root |-> r, selected |-> {}, failed |-> {}, delfail |-> FALSE,
           listfail |-> TRUE]}
    ELSE
    {[root |-> delete_all(r, old_backups(backups, limit), outcomes),
      selected |-> {old_backups(backups, limit)[i] :
                        i \in 1..Len(old_backups(backups, limit))},
      failed |-> {old_backups(backups, limit)[i] :
                        i \in {j \in 1..Len(outcomes) : outcomes[j] # "ok"}},
      delfail |-> \E i \in 1..Len(outcomes) : outcomes[i] # "ok",
      listfail |-> FALSE] :
        <<backups, outcomes>> \in
            UNION {{<<b, o>> : o \in [1..Len(old_backups(b, limit)) -> DelOutcomes]} :
                       b \in list_backups(r.zips, r.sidecars, r.dirs, r.temp)}}

\* ------------------------------------------------------------ state
VARIABLES
    now,          \* the wall clock, in ticks
    compress,     \* CONFIG['compress']
    max_backups,  \* CONFIG['max_backups']
    content,      \* the tree at CONFIG['content_dir']
    config,       \* the files of CONFIG['config_files']
    zips,         \* backup root: <name>.zip
    sidecars,     \* backup root: <name>_metadata.json
    dirs,         \* backup root: <name>/ directory backups
    pre,          \* backup root: pre_restore_<name>/ snapshots
    temp,         \* backup root: temp_restore_<t>/, the staging directory
    pc,           \* where restore_backup stands ("idle" between calls)
    rs,           \* the running restore_backup call's locals
    last,         \* the step just taken and what the call returned
    created,      \* number of create_backup calls that returned an id
    lastId,       \* the id the latest of them returned
    edits,        \* number of changes from outside the calls' own course: edits
                  \* of the author, changes made by hand in the backup root or
                  \* the configuration, failures the file system brings about
    restores,     \* number of restore_backup calls that went past confirmation
    atCreate,     \* content and config as the latest create_backup found them
    filterPath,   \* the path the latest should_exclude call was given
    filterResult, \* what that call returned ("none" before the first call)
    sched         \* the scheduler process started by start_scheduler

vars ==
    <<now, compress, max_backups, content, config, zips, sidecars, dirs, pre,
      temp, pc, rs, last, created, lastId, edits, restores, atCreate,
      filterPath, filterResult, sched>>

Root == [zips |-> zips, sidecars |-> sidecars, dirs |-> dirs, temp |-> temp]

\* Calls and edits made so far: create_backup calls that returned an id,
\* restore_backup calls that went past confirmation, edits of the author.
Ops == created + edits + restores

\* The content roots a run starts from: none, a single chapter, a chapter
\* beside a version-control file, a chapter beside an empty directory, and a
\* version-control file alone.
InitTrees ==
    {NoTree,
     [EmptyTree EXCEPT !.files[FileA] = 1],
     [EmptyTree EXCEPT !.files[FileA] = 1, !.files[FileG] = 1],
     [EmptyTree EXCEPT !.files[FileA] = 1, !.dirs = EmptyDirs],
     [EmptyTree EXCEPT !.files[FileG] = 1]}

\* config.yaml is there, netlify.toml is not.
InitConfig == [c \in ConfigFiles |-> IF c = "config.yaml" THEN 1 ELSE 0]

\* What one edit of the content root can give: an existing file rewritten
\* with another length.
EditsOf(tree) ==
    {[tree EXCEPT !.files[f] = v] : f \in Present(tree.files), v \in 1..MaxSize}

NoId == 0 - 1

\* The locals of a restore_backup call.  staged: staging has succeeded; snap:
\* the pre-restore copy was made, under prename; err: an exception is on its
\* way to the caller; fault: a step raised for the file system's own reasons.
NoCall ==
    [name |-> NoId, type |-> "none", prior |-> NoTree, priorcfg |-> NoCfg,
     prename |-> NoId, staged |-> FALSE, snap |-> FALSE, err |-> FALSE,
     fault |-> FALSE, fresh |-> FALSE]

\* fresh: no call and no edit has happened since.
NoSnapshot == [tree |-> NoTree, cfg |-> NoCfg, fresh |-> FALSE]

\* The step just taken: the operation, what it returned (or the step of
\* restore_backup it was), and the archive name it returned or was given.
\* selected: the entries the trimming step selected; failed: those whose
\* deletion raised; delfail: a deletion of the trimming step raised; listfail:
\* list_backups raised inside the trimming step; after: for a
\* cleanup_old_backups call, whether the call right before it was one too
\* ("cleanup"), and one that deleted what it selected ("cleanup_deleted");
\* confirm: the answer given at the confirmation
\* prompt; fresh: the call restored the archive of the create_backup call
\* right before it.
Step(op, out, id) ==
    [op |-> op, out |-> out, id |-> id, selected |-> {}, failed |-> {},
     delfail |-> FALSE, listfail |-> FALSE, confirm |-> TRUE, fresh |-> FALSE,
     after |-> "none"]

Trimmed(op, out, id, c) ==
    [Step(op, out, id) EXCEPT !.selected = c.selected, !.failed = c.failed,
                              !.delfail = c.delfail, !.listfail = c.listfail]

\* The scheduler process before start_scheduler is called.  pc: "off"; "job"
\* while run_scheduled_backup runs; "pending" at schedule.run_pending();
\* "sleep" at time.sleep(60); "interrupted" after KeyboardInterrupt; "raised"
\* when an exception has left start_scheduler.  called: when start_scheduler
\* was called; next_run: when the job
\* registered with schedule is due; start: when the running job began;
\* running: scheduled create_backup calls under way; runs: the jobs that have
\* ended, with their start, their end and what create_backup did.
NoSched ==
    [pc |-> "off", called |-> 0 - 1, next_run |-> 0 - 1, start |-> 0 - 1,
     running |-> 0, runs |-> << >>]

Init ==
    /\ now = 0
    /\ compress \in BOOLEAN
    /\ max_backups \in 1..MaxN
    /\ content \in InitTrees
    /\ config = InitConfig
    /\ zips = [n \in Names |-> NoZip]
    /\ sidecars = [n \in Names |-> NoMeta]
    /\ dirs = [n \in Names |-> NoDir]
    /\ pre = [n \in Names |-> NoTree]
    /\ temp = NoTemp
    /\ pc = "idle"
    /\ rs = NoCall
    /\ last = Step("init", "none", NoId)
    /\ created = 0
    /\ lastId = NoId
    /\ edits = 0
    /\ restores = 0
    /\ atCreate = NoSnapshot
    /\ filterPath = << >>
    /\ filterResult = "none"
    /\ sched = NoSched

\* ------------------------------------------------------------ environment
\* The wall clock advances.
Tick ==
    /\ pc = "idle"
    /\ now < MaxTime
    /\ now' = now + 1
    /\ last' = Step("env", "none", NoId)
    /\ UNCHANGED <<filterPath, filterResult, sched>>
    /\ UNCHANGED <<compress, max_backups, content, config, zips, sidecars, dirs,
                   pre, temp, pc, rs, created, lastId, edits, restores, atCreate>>

\* The wall clock is set back (a clock adjustment).
ClockStepBack ==
    /\ pc = "idle"
    /\ created > 0
    /\ now > 0
    /\ now' = now - 1
    /\ last' = Step("env", "none", NoId)
    /\ UNCHANGED <<filterPath, filterResult, sched>>
    /\ UNCHANGED <<compress, max_backups, content, config, zips, sidecars, dirs,
                   pre, temp, pc, rs, created, lastId, edits, restores, atCreate>>

\* The author changes the content tree between two calls.
EditContent ==
    /\ pc = "idle"
    /\ Ops < MaxOps
    /\ \E t \in EditsOf(content) : t # content /\ content' = t
    /\ edits' = edits + 1
    /\ last' = Step("env", "none", NoId)
    /\ atCreate' = [atCreate EXCEPT !.fresh = FALSE]
    /\ UNCHANGED <<filterPath, filterResult, sched>>
    /\ UNCHANGED <<now, compress, max_backups, config, zips, sidecars, dirs, pre,
                   temp, pc, rs, created, lastId, restores>>

\* The author rewrites a config file between two calls.
EditConfig ==
    /\ pc = "idle"
    /\ Ops < MaxOps
    /\ \E c \in Present(config), v \in 1..MaxSize :
          /\ v # config[c]
          /\ config' = [config EXCEPT ![c] = v]
    /\ edits' = edits + 1
    /\ last' = Step("env", "none", NoId)
    /\ atCreate' = [atCreate EXCEPT !.fresh = FALSE]
    /\ UNCHANGED <<filterPath, filterResult, sched>>
    /\ UNCHANGED <<now, compress, max_backups, content, zips, sidecars, dirs, pre,
                   temp, pc, rs, created, lastId, restores>>

\* A metadata file of the backup root is removed by hand.
RemoveSidecar ==
    /\ pc = "idle"
    /\ Ops < MaxOps
    /\ \E n \in Names :
          /\ sidecars[n].exists
          /\ sidecars' = [sidecars EXCEPT ![n] = NoMeta]
    /\ edits' = edits + 1
    /\ last' = Step("env", "none", NoId)
    /\ atCreate' = [atCreate EXCEPT !.fresh = FALSE]
    /\ UNCHANGED <<filterPath, filterResult, sched>>
    /\ UNCHANGED <<now, compress, max_backups, content, config, zips, dirs, pre,
                   temp, pc, rs, created, lastId, restores>>

\* A metadata file of the backup root is damaged: it no longer parses, or it
\* parses and has lost its 'timestamp' key.
CorruptMetadata ==
    /\ pc = "idle"
    /\ Ops < MaxOps
    /\ \E n \in Names, form \in {"unparsable", "no_timestamp"} :
          \/ /\ sidecars[n].exists /\ sidecars[n].form = "ok"
             /\ sidecars' = [sidecars EXCEPT ![n].form = form]
             /\ dirs' = dirs
          \/ /\ dirs[n].exists /\ dirs[n].meta.exists /\ dirs[n].meta.form = "ok"
             /\ dirs' = [dirs EXCEPT ![n].meta.form = form]
             /\ sidecars' = sidecars
    /\ edits' = edits + 1
    /\ last' = Step("env", "none", NoId)
    /\ atCreate' = [atCreate EXCEPT !.fresh = FALSE]
    /\ UNCHANGED <<filterPath, filterResult, sched>>
    /\ UNCHANGED <<now, compress, max_backups, content, config, zips, pre, temp,
                   pc, rs, created, lastId, restores>>

\* CONFIG['compress'] is changed between two runs.
SetCompress ==
    /\ pc = "idle"
    /\ Ops < MaxOps
    /\ compress' = ~compress
    /\ edits' = edits + 1
    /\ last' = Step("env", "none", NoId)
    /\ atCreate' = [atCreate EXCEPT !.fresh = FALSE]
    /\ UNCHANGED <<filterPath, filterResult, sched>>
    /\ UNCHANGED <<now, max_backups, content, config, zips, sidecars, dirs, pre,
                   temp, pc, rs, created, lastId, restores>>

\* ------------------------------------------------------------ create_backup
\* The metadata the compressed branch has accumulated when it saves it: one
\* count and the byte size per file written, content files then config files.
zip_metadata(tree, cfg, name, ts, seq) ==
    [exists |-> TRUE, name |-> name, timestamp |-> ts,
     file_count |-> Cardinality(WalkIncluded(tree)) + Cardinality(Present(cfg)),
     content_size |-> SumSizes(tree.files, WalkIncluded(tree))
                         + SumSizes(cfg, Present(cfg)),
     seq |-> seq, form |-> "ok"]

\* The metadata the directory branch saves: it never touches the two counters.
dir_metadata(tree, cfg, name, ts, seq) ==
    [exists |-> TRUE, name |-> name, timestamp |-> ts, file_count |-> 0,
     content_size |-> 0, seq |-> seq, form |-> "ok"]

\* The entries zipf.write puts into the archive: content/<rel> for each walked
\* file, and each existing config file at the archive's top level.
write_zip(tree, cfg) ==
    [exists |-> TRUE,
     content |-> [f \in ContentFiles |->
                     IF f \in WalkIncluded(tree) THEN tree.files[f] ELSE 0],
     cfg |-> cfg]

\* shutil.copytree of the content root, the config files copied into config/.
write_dir(tree, cfg, meta) ==
    [exists |-> TRUE, content |-> tree, cfg |-> cfg, meta |-> meta]

\* The backup root once payload and metadata are written, before trimming.
\* name is read from the clock first, the timestamp at ts, not before.
written_root(r, name, ts, seq) ==
    IF compress
    THEN [r EXCEPT !.zips[name] = write_zip(content, config),
                   !.sidecars[name] = zip_metadata(content, config, name, ts, seq)]
    ELSE [r EXCEPT !.dirs[name] =
              write_dir(content, config, dir_metadata(content, config, name, ts, seq))]

\* shutil.copytree raises when the content root is missing or when
\* <name>/content is already there.
copytree_raises(name) == ~content.exists \/ dirs[name].exists

\* What create_backup hands its caller once payload and metadata are written
\* and cleanup_old_backups() has come back with the result c: the trimming
\* step catches its own exceptions, return backup_name follows.
create_result_escalates(c) == IF c.delfail \/ c.listfail THEN "raised" ELSE "ok"

create_result(c) == "ok"

create_backup_returns ==
    /\ pc = "idle"
    /\ Ops < MaxOps
    /\ compress \/ ~copytree_raises(get_backup_filename(now))
    /\ \E d \in 0..1 :
          /\ now + d <= MaxTime
          /\ now' = now + d
          /\ \E c \in cleanup_old_backups(
                          written_root(Root, get_backup_filename(now), now + d,
                                       created + 1),
                          max_backups) :
                /\ zips' = c.root.zips
                /\ sidecars' = c.root.sidecars
                /\ dirs' = c.root.dirs
                /\ temp' = c.root.temp
                /\ last' = Trimmed("create", create_result(c),
                                   get_backup_filename(now), c)
    /\ created' = created + 1
    /\ lastId' = get_backup_filename(now)
    /\ atCreate' = [tree |-> content, cfg |-> config, fresh |-> TRUE]
    /\ UNCHANGED <<filterPath, filterResult>>
    /\ UNCHANGED <<compress, max_backups, content, config, pre, pc, rs, edits,
                   restores>>

CreateBackup == create_backup_returns /\ UNCHANGED sched

\* create_backup logs and re-raises; nothing was written.
create_backup_raises ==
    /\ pc = "idle"
    /\ ~compress
    /\ copytree_raises(get_backup_filename(now))
    /\ last' = Step("create", "raised", NoId)
    /\ UNCHANGED <<filterPath, filterResult>>
    /\ UNCHANGED <<now, compress, max_backups, content, config, zips, sidecars,
                   dirs, pre, temp, pc, rs, created, lastId, edits, restores, atCreate>>

CreateBackupRaises == create_backup_raises /\ UNCHANGED sched

\* Where a create_backup call can raise for the file system's own reasons:
\* "open", before anything is written (the backup root cannot be made, the
\* archive cannot be opened); "entry", while the payload is written; "metadata",
\* while json.dump writes the metadata file, the payload being complete.
CreateFailures == {"open", "entry", "metadata"}

\* The backup root a create_backup call leaves when it raises at the given
\* point.  ZipFile(zip_path, 'w') truncates an archive of that name before the
\* first entry is written, and open(metadata_path, 'w') the metadata file
\* before json.dump writes; copytree has made <name>/content when a copy raises.
failed_root(r, name, ts, seq, point) ==
    IF point = "open" THEN r
    ELSE IF compress
    THEN IF point = "entry"
         THEN [r EXCEPT !.zips[name] = [NoZip EXCEPT !.exists = TRUE]]
         ELSE [r EXCEPT !.zips[name] = write_zip(content, config),
                        !.sidecars[name] =
                            [zip_metadata(content, config, name, ts, seq)
                                EXCEPT !.form = "unparsable"]]
    ELSE IF point = "entry"
         THEN [r EXCEPT !.dirs[name] = [NoDir EXCEPT !.exists = TRUE,
                                                     !.content = EmptyTree]]
         ELSE [r EXCEPT !.dirs[name] =
                  write_dir(content, config,
                            [dir_metadata(content, config, name, ts, seq)
                                EXCEPT !.form = "unparsable"])]

\* create_backup raises part-way for the file system's own reasons: the except
\* clause logs and re-raises, the trimming step is not reached.
create_backup_fails ==
    /\ pc = "idle"
    /\ Ops < MaxOps
    /\ compress \/ ~copytree_raises(get_backup_filename(now))
    /\ \E point \in CreateFailures :
          LET r == failed_root(Root, get_backup_filename(now), now, created + 1,
                               point)
          IN  /\ zips' = r.zips
              /\ sidecars' = r.sidecars
              /\ dirs' = r.dirs
              /\ last' = Step("create", "raised", NoId)
    /\ edits' = edits + 1
    /\ atCreate' = [atCreate EXCEPT !.fresh = FALSE]
    /\ UNCHANGED <<filterPath, filterResult>>
    /\ UNCHANGED <<now, compress, max_backups, content, config, pre, temp, pc,
                   rs, created, lastId, restores>>

CreateBackupFails == create_backup_fails /\ UNCHANGED sched

\* cleanup_old_backups called on its own.
Cleanup ==
    /\ pc = "idle"
    /\ \E c \in cleanup_old_backups(Root, max_backups) :
          /\ zips' = c.root.zips
          /\ sidecars' = c.root.sidecars
          /\ dirs' = c.root.dirs
          /\ temp' = c.root.temp
          /\ last' = [Trimmed("cleanup", "ok", NoId, c) EXCEPT
                          !.after = IF last.op # "cleanup" THEN "none"
                                    ELSE IF last.selected # {} /\ ~last.delfail
                                    THEN "cleanup_deleted"
                                    ELSE "cleanup"]
    /\ atCreate' = [atCreate EXCEPT !.fresh = FALSE]
    /\ UNCHANGED <<filterPath, filterResult, sched>>
    /\ UNCHANGED <<now, compress, max_backups, content, config, pre, pc, rs,
                   created, lastId, edits, restores>>

\* ------------------------------------------------------------ restore_backup
\* next((b for b in backups if b['name'] == backup_name), None): the set
\* holding the first match, empty when there is none.
find_backup_any(backups, name) ==
    IF backups = << >> THEN {} ELSE {backups[1]}

find_backup(backups, name) ==
    LET hits == {i \in 1..Len(backups) : backups[i].name = name}
    IN  IF hits = {} THEN {}
        ELSE {backups[CHOOSE i \in hits : \A j \in hits : i <= j]}

\* The staging directory after os.makedirs(temp_dir), which runs only once
\* the lookup has succeeded and the confirmation was given.
makedirs_temp_early(found, confirm) == [NoTemp EXCEPT !.exists = TRUE]

makedirs_temp(found, confirm) ==
    IF found /\ confirm THEN [NoTemp EXCEPT !.exists = TRUE] ELSE temp

\* Lookup, confirmation, creation of the staging directory.  An exception of
\* list_backups goes to the caller before anything else is done.
RestoreBegin ==
    /\ pc = "idle"
    /\ \E name \in Names, confirm \in BOOLEAN :
       IF list_raises(zips, sidecars, dirs, temp)
       THEN /\ last' = [Step("restore", "raised", name) EXCEPT !.listfail = TRUE]
            /\ UNCHANGED <<temp, pc, rs, restores, atCreate>>
       ELSE
       \E backups \in list_backups(zips, sidecars, dirs, temp) :
          LET hit == find_backup(backups, name)
              found == hit # {}
          IN  /\ temp' = makedirs_temp(found, confirm)
              /\ IF ~found
                 THEN /\ last' = [Step("restore", "not_found", name)
                                    EXCEPT !.confirm = confirm]
                      /\ UNCHANGED <<pc, rs, restores, atCreate>>
                 ELSE IF ~confirm
                 THEN /\ last' = [Step("restore", "cancelled", name)
                                    EXCEPT !.confirm = confirm]
                      /\ UNCHANGED <<pc, rs, restores, atCreate>>
                 ELSE /\ Ops < MaxOps
                      /\ restores' = restores + 1
                      /\ pc' = "stage"
                      /\ rs' = [NoCall EXCEPT
                                   !.name = name,
                                   !.type = (CHOOSE b \in hit : TRUE).type,
                                   !.prior = content,
                                   !.priorcfg = config,
                                   !.fresh = atCreate.fresh /\ name = lastId]
                      /\ atCreate' = [atCreate EXCEPT !.fresh = FALSE]
                      /\ last' = Step("restore_step", "begin", name)
    /\ UNCHANGED <<filterPath, filterResult, sched>>
    /\ UNCHANGED <<now, compress, max_backups, content, config, zips, sidecars,
                   dirs, pre, created, lastId, edits>>

\* zipf.extractall(temp_dir): content/ appears when the archive holds an entry
\* below it, the config files land at the top of the staging directory.
extract_zip(z) ==
    [exists |-> TRUE,
     content |-> [exists |-> Present(z.content) # {}, files |-> z.content,
                  dirs |-> {}],
     cfgdir |-> FALSE, cfg |-> NoCfg, rootcfg |-> z.cfg, meta |-> NoMeta]

\* shutil.copytree(backup_info['path'], temp_dir, dirs_exist_ok=True)
copy_dir_backup(d) ==
    [exists |-> TRUE, content |-> d.content, cfgdir |-> TRUE, cfg |-> d.cfg,
     rootcfg |-> NoCfg, meta |-> d.meta]

\* Where restore_backup goes when extractall or copytree into the staging
\* directory raised: to the finally clause, the exception on its way to the
\* caller.
after_stage_failure_goes_on == [pc |-> "snapshot", err |-> FALSE]

after_stage_failure == [pc |-> "finally", err |-> TRUE]

\* Stage: the archive is materialized in the staging directory, or that raises.
RestoreStage ==
    /\ pc = "stage"
    /\ \E ok \in BOOLEAN :
          IF ok
          THEN /\ temp' = IF rs.type = "compressed"
                          THEN extract_zip(zips[rs.name])
                          ELSE copy_dir_backup(dirs[rs.name])
               /\ pc' = "snapshot"
               /\ rs' = [rs EXCEPT !.staged = TRUE]
          ELSE /\ temp' = temp
               /\ pc' = after_stage_failure.pc
               /\ rs' = [rs EXCEPT !.err = after_stage_failure.err,
                                   !.fault = TRUE]
    /\ last' = Step("restore_step", "stage", rs.name)
    /\ UNCHANGED <<filterPath, filterResult, sched>>
    /\ UNCHANGED <<now, compress, max_backups, content, config, zips, sidecars,
                   dirs, pre, created, lastId, edits, restores, atCreate>>

\* Where restore_backup goes when the pre-restore copy raised: to the finally
\* clause, the exception on its way to the caller.
after_snapshot_failure_goes_on == [pc |-> "swap", err |-> FALSE]

after_snapshot_failure == [pc |-> "finally", err |-> TRUE]

\* Safety snapshot: shutil.copytree(content_dir, pre_restore_<name>) when the
\* content root exists.  It raises when that directory is already there, and
\* it may raise for the file system's own reasons.
RestoreSnapshot ==
    /\ pc = "snapshot"
    /\ LET n == get_backup_filename(now)
       IN  IF ~content.exists
           THEN /\ pc' = "swap"
                /\ UNCHANGED <<pre, rs>>
           ELSE \E ok \in BOOLEAN :
                   IF ok /\ ~pre[n].exists
                   THEN /\ pre' = [pre EXCEPT ![n] = content]
                        /\ rs' = [rs EXCEPT !.snap = TRUE, !.prename = n]
                        /\ pc' = "swap"
                   ELSE /\ pre' = pre
                        /\ pc' = after_snapshot_failure.pc
                        /\ rs' = [rs EXCEPT !.err = after_snapshot_failure.err,
                                            !.fault = ~ok]
    /\ last' = Step("restore_step", "snapshot", rs.name)
    /\ UNCHANGED <<filterPath, filterResult, sched>>
    /\ UNCHANGED <<now, compress, max_backups, content, config, zips, sidecars,
                   dirs, temp, created, lastId, edits, restores, atCreate>>

\* Swap, first half: with a staged content/, shutil.rmtree(content_dir) when
\* the content root exists.  A removal that raises has removed nothing or has
\* removed the files and left the root directory.
RestoreRemove ==
    /\ pc = "swap"
    /\ IF ~temp.content.exists
       THEN /\ pc' = "config"
            /\ UNCHANGED <<content, rs>>
       ELSE IF ~content.exists
       THEN /\ pc' = "copy"
            /\ UNCHANGED <<content, rs>>
       ELSE \E ok \in BOOLEAN :
               IF ok
               THEN /\ content' = NoTree
                    /\ pc' = "copy"
                    /\ rs' = rs
               ELSE /\ content' \in {content, EmptyTree}
                    /\ pc' = "finally"
                    /\ rs' = [rs EXCEPT !.err = TRUE, !.fault = TRUE]
    /\ last' = Step("restore_step", "remove", rs.name)
    /\ UNCHANGED <<filterPath, filterResult, sched>>
    /\ UNCHANGED <<now, compress, max_backups, config, zips, sidecars, dirs, pre,
                   temp, created, lastId, edits, restores, atCreate>>

\* Swap, second half: shutil.copytree(temp_dir/content, content_dir).  A copy
\* that raises has made the root directory and copied no file.
RestoreCopy ==
    /\ pc = "copy"
    /\ \E ok \in BOOLEAN :
          IF ok
          THEN /\ content' = temp.content
               /\ pc' = "config"
               /\ rs' = rs
          ELSE /\ content' = EmptyTree
               /\ pc' = "finally"
               /\ rs' = [rs EXCEPT !.err = TRUE, !.fault = TRUE]
    /\ last' = Step("restore_step", "copy", rs.name)
    /\ UNCHANGED <<filterPath, filterResult, sched>>
    /\ UNCHANGED <<now, compress, max_backups, config, zips, sidecars, dirs, pre,
                   temp, created, lastId, edits, restores, atCreate>>

\* The configured files with a staged version in temp_dir/config.
staged_config == IF temp.cfgdir THEN Present(temp.cfg) ELSE {}

\* Swap, overlay: shutil.copy2 of each staged config file over the configured
\* one.  When a copy raises, the files before it have been copied.
RestoreConfig ==
    /\ pc = "config"
    /\ \E k \in 0..Len(config_files) :
       LET S == {config_files[i] : i \in 1..k} \cap staged_config
       IN /\ config' = [c \in ConfigFiles |->
                           IF c \in S THEN temp.cfg[c] ELSE config[c]]
          /\ rs' = [rs EXCEPT !.err = (S # staged_config),
                              !.fault = (S # staged_config)]
    /\ pc' = "finally"
    /\ last' = Step("restore_step", "config", rs.name)
    /\ UNCHANGED <<filterPath, filterResult, sched>>
    /\ UNCHANGED <<now, compress, max_backups, content, zips, sidecars, dirs, pre,
                   temp, created, lastId, edits, restores, atCreate>>

\* What the call hands its caller: True, or the exception raised in the try
\* block.
restore_result(err) == IF err THEN "raised" ELSE "true"

\* The staging directory once the finally clause has run.
rmtree_temp_on_success(err) == IF err THEN temp ELSE NoTemp

rmtree_temp(err) == NoTemp

\* Cleanup: the finally clause removes the staging directory; then the call
\* returns True or the exception goes on to the caller.
RestoreFinally ==
    /\ pc = "finally"
    /\ temp' = rmtree_temp(rs.err)
    /\ pc' = "idle"
    /\ rs' = NoCall
    /\ last' = [Step("restore", restore_result(rs.err), rs.name)
                    EXCEPT !.fresh = rs.fresh]
    /\ UNCHANGED <<filterPath, filterResult, sched>>
    /\ UNCHANGED <<now, compress, max_backups, content, config, zips, sidecars,
                   dirs, pre, created, lastId, edits, restores, atCreate>>

\* ------------------------------------------------------------ start_scheduler
\* Whether an exception of create_backup leaves run_scheduled_backup: its
\* try/except Exception logs it and returns.
run_scheduled_backup_propagates(out) == out = "raised"

run_scheduled_backup_raises(out) == FALSE

\* start_scheduler is called: it logs and calls run_scheduled_backup at once.
StartScheduler ==
    /\ pc = "idle"
    /\ sched.pc = "off"
    /\ sched' = [sched EXCEPT !.pc = "job", !.called = now, !.start = now,
                              !.running = @ + 1]
    /\ UNCHANGED <<now, compress, max_backups, content, config, zips, sidecars,
                   dirs, pre, temp, pc, rs, last, created, lastId, edits, restores,
                   atCreate, filterPath, filterResult>>

\* run_scheduled_backup: the create_backup call it makes, and what follows
\* its return.  After the first job start_scheduler registers the job with
\* schedule (due one interval from then) and enters the loop; after a later
\* one schedule sets the job due one interval after its end, run_pending
\* returns and the loop sleeps.
RunScheduledBackup ==
    /\ pc = "idle"
    /\ sched.pc = "job"
    /\ \/ create_backup_returns
       \/ create_backup_raises
       \/ create_backup_fails
    /\ sched' =
          [sched EXCEPT
              !.running = @ - 1,
              !.runs = Append(@, [start |-> sched.start, end |-> now',
                                  out |-> last'.out]),
              !.pc = IF run_scheduled_backup_raises(last'.out) THEN "raised"
                     ELSE IF sched.runs = << >> THEN "pending" ELSE "sleep",
              !.next_run = IF run_scheduled_backup_raises(last'.out) THEN @
                           ELSE now' + backup_interval]

\* schedule.run_pending(): the job is run when it is due.
RunPending ==
    /\ sched.pc = "pending"
    /\ sched' = IF now >= sched.next_run
                THEN [sched EXCEPT !.pc = "job", !.start = now, !.running = @ + 1]
                ELSE [sched EXCEPT !.pc = "sleep"]
    /\ UNCHANGED <<now, compress, max_backups, content, config, zips, sidecars,
                   dirs, pre, temp, pc, rs, last, created, lastId, edits, restores,
                   atCreate, filterPath, filterResult>>

\* time.sleep(60) returns.
SchedulerSleep ==
    /\ pc = "idle"
    /\ sched.pc = "sleep"
    /\ now + sleep_time <= MaxTime
    /\ now' = now + sleep_time
    /\ sched' = [sched EXCEPT !.pc = "pending"]
    /\ last' = Step("env", "none", NoId)
    /\ UNCHANGED <<compress, max_backups, content, config, zips, sidecars, dirs,
                   pre, temp, pc, rs, created, lastId, edits, restores, atCreate,
                   filterPath, filterResult>>

\* KeyboardInterrupt in the loop: the scheduler logs and stops.
StopScheduler ==
    /\ sched.pc \in {"pending", "sleep"}
    /\ sched' = [sched EXCEPT !.pc = "interrupted"]
    /\ UNCHANGED <<now, compress, max_backups, content, config, zips, sidecars,
                   dirs, pre, temp, pc, rs, last, created, lastId, edits, restores,
                   atCreate, filterPath, filterResult>>

\* ------------------------------------------------------------ should_exclude
\* Pieces of path strings: plain names, the separator, the exclusion tokens,
\* tokens cut short, and names the tokens would match as glob patterns.
Fragments ==
    { <<"a">>, <<"/">>, <<"t">>,
      <<".", "g", "i">>, <<".", "g", "i", "t">>,
      <<"*", ".", "p", "y", "c">>, <<"x", ".", "p", "y", "c">>,
      <<"*", ".", "l", "o", "g">>, <<"x", ".", "l", "o", "g">>,
      <<"b", "a", "c", "k", "u", "p">>, <<"b", "a", "c", "k", "u", "p", "s">>,
      <<"_", "_", "p", "y", "c", "a", "c", "h", "e", "_", "_">>,
      <<"_", "p", "y", "c", "a", "c", "h", "e", "_", "_">> }

\* The paths made of at most n pieces.
RECURSIVE PathsOf(_)
PathsOf(n) ==
    IF n = 0 THEN {<< >>}
    ELSE PathsOf(n - 1) \cup {p \o f : p \in PathsOf(n - 1), f \in Fragments}

Paths == PathsOf(MaxSegs)

\* One call of should_exclude, the only one of the run: the function keeps
\* no state, a second call shows nothing the first cannot.
ShouldExclude ==
    /\ filterResult = "none"
    /\ \E p \in Paths :
          /\ filterPath' = p
          /\ filterResult' = IF should_exclude(p) THEN "true" ELSE "false"
    /\ UNCHANGED <<now, compress, max_backups, content, config, zips, sidecars,
                   dirs, pre, temp, pc, rs, last, created, lastId, edits, restores,
                   atCreate, sched>>

Next ==
    \/ ShouldExclude
    \/ StartScheduler
    \/ RunScheduledBackup
    \/ RunPending
    \/ SchedulerSleep
    \/ StopScheduler
    \/ Tick
    \/ ClockStepBack
    \/ EditContent
    \/ EditConfig
    \/ CreateBackup
    \/ CreateBackupRaises
    \/ CreateBackupFails
    \/ Cleanup
    \/ RemoveSidecar
    \/ CorruptMetadata
    \/ SetCompress
    \/ RestoreBegin
    \/ RestoreStage
    \/ RestoreSnapshot
    \/ RestoreRemove
    \/ RestoreCopy
    \/ RestoreConfig
    \/ RestoreFinally

Spec == Init /\ [][Next]_vars

\* ------------------------------------------------------------ the catalog alone
\* create_backup, cleanup_old_backups and the clock, from one content tree:
\* what the listing, the names and the trimming read.  restore_backup adds
\* only directories without metadata.json to the backup root once it is over,
\* and list_backups passes over those.
InitCatalog ==
    /\ Init
    /\ content = [EmptyTree EXCEPT !.files[FileA] = 1]

NextCatalog ==
    \/ Tick
    \/ ClockStepBack
    \/ CreateBackup
    \/ CreateBackupRaises
    \/ Cleanup

SpecCatalog == InitCatalog /\ [][NextCatalog]_vars

\* ------------------------------------------------------------ archives and restores
\* create_backup and restore_backup over every starting tree, with edits in
\* between.  The clock moves only while create_backup runs, which is all that
\* the payloads and the restore protocol depend on.
NextRestore ==
    \/ EditContent
    \/ EditConfig
    \/ CreateBackup
    \/ CreateBackupRaises
    \/ RestoreBegin
    \/ RestoreStage
    \/ RestoreSnapshot
    \/ RestoreRemove
    \/ RestoreCopy
    \/ RestoreConfig
    \/ RestoreFinally

SpecRestore == Init /\ [][NextRestore]_vars

\* ------------------------------------------------------------ the listing
\* The backup root as calls that fail part-way and changes made by hand leave
\* it: archives without a sidecar, sidecars without an archive, both kinds of
\* backup side by side.  Every metadata file is as json.dump wrote it, or cut
\* short by a failed write.
NextListing ==
    \/ Tick
    \/ CreateBackup
    \/ CreateBackupRaises
    \/ CreateBackupFails
    \/ Cleanup
    \/ RemoveSidecar
    \/ SetCompress

SpecListing == InitCatalog /\ [][NextListing]_vars

\* The same with metadata files damaged from outside.
NextCorrupt ==
    \/ Tick
    \/ CreateBackup
    \/ CreateBackupRaises
    \/ CreateBackupFails
    \/ Cleanup
    \/ RemoveSidecar
    \/ SetCompress
    \/ CorruptMetadata

SpecCorrupt == InitCatalog /\ [][NextCorrupt]_vars

\* ------------------------------------------------------------ the path filter
\* should_exclude alone, called on a path.
NextFilter == ShouldExclude

SpecFilter == InitCatalog /\ [][NextFilter]_vars

\* ------------------------------------------------------------ the scheduler
\* start_scheduler alone, over every starting tree: the scheduled jobs are
\* the only create_backup calls, the clock moves while they run and while the
\* loop sleeps.
NextScheduler ==
    \/ StartScheduler
    \/ RunScheduledBackup
    \/ RunPending
    \/ SchedulerSleep
    \/ StopScheduler

SpecScheduler == Init /\ [][NextScheduler]_vars

\* ------------------------------------------------------------ statements
Catalog == Entries(zips, sidecars, dirs, temp)

CatalogNames == {e.name : e \in Catalog}

\* What restore_backup may change besides its own locals.
FileSystem == <<zips, sidecars, dirs, pre, temp, content, config>>

MoreRecent(e1, e2) ==
    \/ e1.metadata.timestamp > e2.metadata.timestamp
    \/ /\ e1.metadata.timestamp = e2.metadata.timestamp
       /\ e1.metadata.seq > e2.metadata.seq

MostRecent(S, n) ==
    {e \in S : Cardinality({x \in S : MoreRecent(x, e)}) < n}

\* C2: when no deletion raises, the records left by cleanup_old_backups (called
\* on its own or as the last step of create_backup) are exactly the max_backups
\* most recently created ones, records of equal timestamp ranked by creation
\* order.
RetentionKeepsMostRecent ==
    [][/\ (last'.op = "cleanup" /\ ~last'.delfail)
            => Catalog' = MostRecent(Catalog, max_backups)
       /\ (last'.op = "create" /\ last'.out = "ok" /\ created' = created + 1
              /\ ~last'.delfail)
            => Catalog' =
                   MostRecent(Entries(written_root(Root, last'.id, now', created').zips,
                                      written_root(Root, last'.id, now', created').sidecars,
                                      written_root(Root, last'.id, now', created').dirs,
                                      temp),
                              max_backups)]_vars

\* C3: while restore_backup runs on an existing content root, the content
\* tree and the config files differ from what they were when the call began
\* only if the pre-restore copy was made and holds that whole tree; so a copy
\* that raised leaves them as they were.
SnapshotPrecedesDestruction ==
    (pc # "idle" /\ rs.prior.exists
        /\ (content # rs.prior \/ config # rs.priorcfg))
        => (rs.snap /\ pre[rs.prename] = rs.prior)

\* restore_backup has removed the content tree, its copy sits in the backup
\* root.
ContentRemovedWitness ==
    /\ pc = "copy"
    /\ rs.prior.exists
    /\ ~content.exists
    /\ rs.snap
    /\ pre[rs.prename] = rs.prior

\* C4: create_backup and then at once restore_backup of the id it returned,
\* confirmed, leaves the content root and the config files as they were before
\* the create.
RoundTrip ==
    (last.op = "restore" /\ last.out = "true" /\ last.fresh)
        => (content = atCreate.tree /\ config = atCreate.cfg)

\* C5: restore_backup of a name that is not in the catalog raises the
\* not-found error and changes nothing in the backup root, the content root
\* and the config files.
MissingIdRestoreChangesNothing ==
    [][(pc = "idle" /\ last'.op \in {"restore", "restore_step"}
           /\ last'.id \notin CatalogNames)
          => (last'.out = "not_found" /\ UNCHANGED FileSystem)]_vars

\* A restore_backup call on a catalog that holds archives, none of the name
\* asked for.
MissingIdWitness ==
    /\ last.op = "restore"
    /\ last.out = "not_found"
    /\ Catalog # {}
    /\ last.id \notin CatalogNames

\* C6: restore_backup of a catalogued archive with the confirmation declined
\* returns False and changes nothing in the backup root, the content root and
\* the config files.
DeclinedRestoreChangesNothing ==
    [][(pc = "idle" /\ last'.op \in {"restore", "restore_step"}
           /\ last'.id \in CatalogNames /\ ~last'.confirm)
          => (last'.out = "cancelled" /\ UNCHANGED FileSystem)]_vars

\* A declined restore_backup call on an archive of the catalog, with content
\* there to lose.
DeclinedWitness ==
    /\ last.op = "restore"
    /\ last.out = "cancelled"
    /\ ~last.confirm
    /\ last.id \in CatalogNames
    /\ content.exists

\* C7: whenever restore_backup ends after it made the staging directory, the
\* staging directory is gone, and the call raises exactly when stage, safety
\* snapshot or swap raised (it returns True otherwise).
StagingAlwaysRemoved ==
    [][(pc # "idle" /\ pc' = "idle")
          => (~temp'.exists /\ last'.op = "restore"
              /\ last'.out = IF rs.err THEN "raised" ELSE "true")]_vars

\* A restore_backup call that made the staging directory and then raised: the
\* staging directory is gone.
FailedRestoreWitness ==
    /\ pc = "idle"
    /\ last.op = "restore"
    /\ last.out = "raised"
    /\ ~temp.exists

\* C8: a create_backup call that returns an id adds exactly one record to the
\* catalog, named by that id, and every record that was there and that
\* retention did not select is still there.
CreateAddsOneRecord ==
    [][(last'.op = "create" /\ last'.out = "ok" /\ created' = created + 1)
          => /\ Cardinality(Catalog' \ Catalog) = 1
             /\ \A e \in Catalog' \ Catalog : e.name = last'.id
             /\ \A e \in Catalog : e \notin last'.selected => e \in Catalog']_vars

\* The files create_backup is configured to back up and does not exclude.
NonExcluded == {f \in Present(content.files) : ~should_exclude(Join(content_dir, f))}

\* C9: the record create_backup wrote counts the non-excluded files under the
\* content root plus the existing config files, and sums their byte lengths.
MetadataCountsFiles ==
    (last.op = "create" /\ last.out = "ok")
        => \A e \in Catalog :
              (e.name = last.id /\ e.metadata.seq = created)
                  => /\ e.metadata.file_count =
                            Cardinality(NonExcluded) + Cardinality(Present(config))
                     /\ e.metadata.content_size =
                            SumSizes(content.files, NonExcluded)
                                + SumSizes(config, Present(config))

\* C10: the id a create_backup call returns sorts after the id returned by the
\* create_backup call before it.
IdsStrictlyIncrease ==
    [][(last'.op = "create" /\ last'.out = "ok" /\ created' = created + 1
           /\ created > 0)
          => last'.id > lastId]_vars

\* What a metadata file holds of the record (seq is not in the file).
Written(m) ==
    [name |-> m.name, timestamp |-> m.timestamp, file_count |-> m.file_count,
     content_size |-> m.content_size]

\* C11: no step changes the payload or the metadata of a record that is in the
\* backup root: after the step the record is as it was, or it is deleted.
RecordsImmutable ==
    [][\A n \in Names :
          /\ (zips[n].exists /\ sidecars[n].exists)
                => \/ ~(zips'[n].exists /\ sidecars'[n].exists)
                   \/ /\ zips'[n] = zips[n]
                      /\ Written(sidecars'[n]) = Written(sidecars[n])
          /\ (dirs[n].exists /\ dirs[n].meta.exists)
                => \/ ~(dirs'[n].exists /\ dirs'[n].meta.exists)
                   \/ /\ dirs'[n].content = dirs[n].content
                      /\ dirs'[n].cfg = dirs[n].cfg
                      /\ Written(dirs'[n].meta) = Written(dirs[n].meta)]_vars

\* What list_backups can return in the current backup root.
Listings == list_backups(zips, sidecars, dirs, temp)

ListRaises == list_raises(zips, sidecars, dirs, temp)

\* C12: list_backups raises nothing, every entry it returns has its payload
\* and its metadata file in the backup root, and an archive file without its
\* sidecar is not among them.
ListedHaveBoth ==
    /\ ~ListRaises
    /\ \A b \in Listings : \A i \in 1..Len(b) :
          /\ b[i].metadata.exists
          /\ b[i].kind = "zip" =>
                /\ zips[b[i].name].exists
                /\ sidecars[b[i].name] = b[i].metadata
          /\ b[i].kind = "dir" =>
                /\ dirs[b[i].name].exists
                /\ dirs[b[i].name].meta = b[i].metadata
    /\ \A n \in Names : (zips[n].exists /\ ~sidecars[n].exists) =>
          \A b \in Listings : \A i \in 1..Len(b) :
              ~(b[i].kind = "zip" /\ b[i].name = n)

\* An archive file has lost its sidecar, next to a record that is complete.
OrphanArchiveWitness ==
    /\ \E n \in Names : zips[n].exists /\ ~sidecars[n].exists
    /\ Catalog # {}

\* C13: with a metadata file that is unparsable or lacks its timestamp,
\* list_backups raises nothing and returns every well-formed record.
CorruptMetadataNeverAborts ==
    /\ ~ListRaises
    /\ \A b \in Listings :
          \A e \in Catalog : e.metadata.form = "ok" =>
              \E i \in 1..Len(b) : b[i] = e

\* C14: in what list_backups returns, the timestamp of an entry is greater
\* than or equal to that of the entry after it, whatever the kinds of the two.
ListingNewestFirst ==
    \A b \in Listings : \A i \in 1..(Len(b) - 1) :
        b[i].metadata.timestamp >= b[i + 1].metadata.timestamp

\* The catalog holds an archive and a directory backup of different
\* timestamps.
MixedListingWitness ==
    \E e1, e2 \in Catalog :
        /\ e1.kind = "zip"
        /\ e2.kind = "dir"
        /\ e1.metadata.timestamp # e2.metadata.timestamp

\* A cleanup_old_backups step that deleted nothing.
NoDeletion == zips' = zips /\ sidecars' = sidecars /\ dirs' = dirs

OnlyArchives == \A e \in Catalog : e.kind = "zip"

\* What C16 asks of a cleanup_old_backups step on more than max_backups
\* archives: max_backups records are left, and each removed one is gone with
\* its sidecar and is no newer than any record left.
RemovedOldestWithSidecars ==
    /\ Cardinality(Catalog') = max_backups
    /\ Catalog' \subseteq Catalog
    /\ \A e \in Catalog \ Catalog' :
          /\ ~zips'[e.name].exists
          /\ ~sidecars'[e.name].exists
          /\ \A k \in Catalog' : e.metadata.timestamp <= k.metadata.timestamp

DeletionFailuresIsolated ==
    [][(last'.op = "cleanup" \/ (last'.op = "create" /\ last'.out = "ok"))
          => /\ last'.out = "ok"
             /\ \A e \in last'.selected \ last'.failed :
                   /\ e \notin Catalog'
                   /\ e.kind = "zip" => ~zips'[e.name].exists
                   /\ e.kind = "dir" => ~dirs'[e.name].exists]_vars

\* One deletion raised and another selected entry was removed all the same.
IsolatedFailureWitness ==
    /\ last.op = "cleanup"
    /\ last.failed # {}
    /\ last.selected \ last.failed # {}
    /\ \A e \in last.selected \ last.failed : e \notin Catalog

\* C18: a create_backup call that has written payload and metadata runs the
\* trimming step on the backup root holding them, and returns the new name
\* whatever failed inside the trimming step.
CreateSurvivesTrimming ==
    [][(last'.op = "create" /\ created' = created + 1)
          => /\ last'.out = "ok"
             /\ last'.id = get_backup_filename(now)
             /\ \E c \in cleanup_old_backups(
                             written_root(Root, get_backup_filename(now), now',
                                          created'),
                             max_backups) :
                   /\ zips' = c.root.zips
                   /\ sidecars' = c.root.sidecars
                   /\ dirs' = c.root.dirs
                   /\ last'.delfail = c.delfail
                   /\ last'.listfail = c.listfail]_vars

\* create_backup returned its name although list_backups raised inside the
\* trimming step.
TrimmingListFailedWitness ==
    /\ last.op = "create"
    /\ last.out = "ok"
    /\ last.listfail
    /\ \/ zips[last.id].exists /\ sidecars[last.id].exists
       \/ dirs[last.id].exists /\ dirs[last.id].meta.exists

\* C19: a create_backup call that raises leaves every record of the catalog
\* listed with the payload and metadata it had, and leaves no metadata file
\* it wrote next to a payload that is not fully written.
FailedCreateKeepsCatalog ==
    [][(last'.op = "create" /\ last'.out = "raised")
          => /\ \A e \in Catalog :
                   /\ e \in Catalog'
                   /\ e.kind = "zip" => zips'[e.name] = zips[e.name]
                   /\ e.kind = "dir" => dirs'[e.name] = dirs[e.name]
             /\ \A n \in Names :
                   /\ (sidecars'[n].exists /\ sidecars'[n] # sidecars[n])
                         => zips'[n] = write_zip(content, config)
                   /\ (dirs'[n].meta.exists /\ dirs'[n].meta # dirs[n].meta)
                         => /\ dirs'[n].content = content
                            /\ dirs'[n].cfg = config]_vars

\* C20: a create_backup call made while the content root or a configured
\* config file is absent (and no backup of the new name is in the way) returns
\* its name and leaves the record of that name.
MissingSourcesSkipped ==
    [][(/\ last'.op = "create"
        /\ ~content.exists \/ \E c \in ConfigFiles : config[c] = 0
        /\ ~dirs[get_backup_filename(now)].exists)
          => /\ last'.out = "ok"
             /\ \/ zips'[last'.id].exists /\ sidecars'[last'.id].exists
                \/ dirs'[last'.id].exists /\ dirs'[last'.id].meta.exists]_vars

\* The file list_backups looks for at the top of a directory of the backup root.
MetadataJson == <<"m", "e", "t", "a", "d", "a", "t", "a", ".", "j", "s", "o", "n">>

\* os.path.exists(os.path.join(item_path, 'metadata.json')) for a pre-restore
\* directory: restore_backup writes into it the copy of the content root and
\* nothing else, so the file is there only if the content root holds it.
pre_listed(tree) == tree.exists /\ MetadataJson \in Present(tree.files)

\* C21: when restore_backup returns True having written its pre-restore
\* snapshot, list_backups returns an entry for that snapshot.
PreRestoreSnapshotListed ==
    [][(pc = "finally" /\ pc' = "idle" /\ ~rs.err /\ rs.snap)
          => pre_listed(pre'[rs.prename])]_vars

\* What the archive a running restore_backup call looked up holds: its content
\* files and its config files.
Archived ==
    IF rs.type = "compressed"
    THEN [files |-> zips[rs.name].content, cfg |-> zips[rs.name].cfg,
          hascontent |-> Present(zips[rs.name].content) # {}]
    ELSE [files |-> dirs[rs.name].content.files, cfg |-> dirs[rs.name].cfg,
          hascontent |-> dirs[rs.name].content.exists]

\* C22: when restore_backup returns True for an archive that holds a content
\* tree, the content root holds the archived files, every config file the
\* archive captured is as archived, and every other config file is as it was
\* when the call began.
RestoreInstallsArchive ==
    [][(pc = "finally" /\ pc' = "idle" /\ ~rs.err /\ Archived.hascontent)
          => /\ content'.exists
             /\ content'.files = Archived.files
             /\ \A c \in ConfigFiles :
                   config'[c] = IF Archived.cfg[c] > 0 THEN Archived.cfg[c]
                                ELSE rs.priorcfg[c]]_vars

\* P contains T as a literal substring: the characters of T stand in P one
\* after the other from some position on.
Contains(P, T) ==
    \E i \in 0..(Len(P) - Len(T)) : \A j \in 1..Len(T) : P[i + j] = T[j]

Tokens == {exclude_patterns[k] : k \in 1..Len(exclude_patterns)}

\* C23: should_exclude(P) is true when P contains one of the configured
\* exclusion tokens as a literal substring, and false when it contains none.
FilterIsSubstringTest ==
    filterResult # "none"
        => (filterResult = "true" <=> \E T \in Tokens : Contains(filterPath, T))

\* should_exclude has excluded a path that holds a token after other
\* characters.
FilterLiteralWitness ==
    /\ filterResult = "true"
    /\ filterPath = <<"a", ".", "g", "i", "t">>

\* A file of the content root, by its relative path, whose path or one of
\* whose directories holds an exclusion token.
ExcludedFile(f) ==
    \/ should_exclude(Join(content_dir, f))
    \/ \E d \in ParentDirs(f) : should_exclude(Join(content_dir, d))

\* C24: no archive of the backup root, compressed or directory, stores a
\* content file whose path, or one of whose directories, holds an exclusion
\* token.
PayloadsHoldNoExcludedFile ==
    \A n \in Names :
        /\ zips[n].exists
              => \A f \in Present(zips[n].content) : ~ExcludedFile(f)
        /\ dirs[n].exists
              => \A f \in Present(dirs[n].content.files) : ~ExcludedFile(f)

\* C25: while restore_backup runs, each step is taken after the one before it
\* completed: the pre-restore snapshot is written only once staging succeeded,
\* the content root is touched only past the snapshot step, the config files
\* only in the last step before cleanup; so a call whose staging failed has
\* written no snapshot and has left the content root and the config files as
\* they were.
RestoreProtocolOrder ==
    pc # "idle"
        => /\ rs.snap => (rs.staged /\ pc \in {"swap", "copy", "config", "finally"})
           /\ content # rs.prior
                 => (rs.staged /\ pc \in {"copy", "config", "finally"})
           /\ config # rs.priorcfg => (rs.staged /\ pc = "finally")
           /\ ~rs.staged
                 => (~rs.snap /\ content = rs.prior /\ config = rs.priorcfg)

\* restore_backup is in its finally clause, staging having raised, on an
\* existing content root.
StagingFailedWitness ==
    /\ pc = "finally"
    /\ last.out = "stage"
    /\ ~rs.staged
    /\ rs.err
    /\ content.exists

\* The versions of the configured config files a pre-restore directory holds:
\* it is the copy of the content root, and the config files lie beside the
\* content root, not below it.
pre_config(tree) == NoCfg

\* C26: while restore_backup runs, a content tree or a config file that no
\* longer is what it was when the call began has its prior version in the
\* pre-restore snapshot the call wrote.
SafetyNetCoversOverwrites ==
    pc # "idle"
        => /\ (rs.prior.exists /\ content # rs.prior)
                 => (rs.snap /\ pre[rs.prename] = rs.prior)
           /\ \A c \in ConfigFiles :
                 config[c] # rs.priorcfg[c]
                    => (rs.snap /\ pre_config(pre[rs.prename])[c] = rs.priorcfg[c])

\* C27: in every state of a running restore_backup call, list_backups
\* evaluated on the backup root returns no entry for the staging directory
\* (and so cleanup_old_backups can select none).
StagingNotListed ==
    pc # "idle" => \A e \in Catalog : e.kind # "temp"

\* The names cleanup_old_backups may delete under: those list_backups returns.
Deleted(n) ==
    \/ zips[n].exists /\ ~zips'[n].exists
    \/ sidecars[n].exists /\ ~sidecars'[n].exists
    \/ dirs[n].exists /\ ~dirs'[n].exists

\* C28: no step of create_backup, restore_backup or cleanup_old_backups
\* deletes or changes an archive file without sidecar, a sidecar without
\* archive file, a backup directory without metadata.json or a pre-restore
\* snapshot; cleanup_old_backups deletes under listed names only and leaves
\* the content root and the config files as they are.
OrphansUntouched ==
    [][(last'.op \in {"create", "cleanup", "restore", "restore_step"})
          => /\ \A n \in Names :
                   /\ (zips[n].exists /\ ~sidecars[n].exists)
                         => (zips'[n] = zips[n] /\ ~sidecars'[n].exists)
                   /\ (sidecars[n].exists /\ ~zips[n].exists)
                         => (sidecars'[n] = sidecars[n] /\ ~zips'[n].exists)
                   /\ (dirs[n].exists /\ ~dirs[n].meta.exists)
                         => dirs'[n] = dirs[n]
                   /\ pre[n].exists => pre'[n] = pre[n]
             /\ last'.op = "cleanup"
                   => /\ \A n \in Names : Deleted(n) => n \in CatalogNames
                      /\ UNCHANGED <<content, config, pre>>]_vars

\* C29: the scheduler runs its first create_backup at once when started, later
\* ones no closer than one interval after the end of the one before and at the
\* first poll at which the job is due (it never sleeps over a due job), never
\* has two scheduled calls under way, and is never stopped by an exception of
\* a scheduled call.
SchedulerDiscipline ==
    /\ sched.running <= 1
    /\ sched.running = 1 <=> sched.pc = "job"
    /\ sched.pc # "off"
          => \/ sched.runs = << >> /\ sched.pc = "job" /\ sched.start = sched.called
             \/ sched.runs # << >> /\ sched.runs[1].start = sched.called
    /\ \A i \in 1..(Len(sched.runs) - 1) :
          sched.runs[i + 1].start >= sched.runs[i].end + backup_interval
    /\ (sched.pc = "job" /\ sched.runs # << >>)
          => sched.start >= sched.runs[Len(sched.runs)].end + backup_interval
    /\ sched.pc = "sleep" => now < sched.next_run
    /\ sched.pc # "raised"

\* A scheduled create_backup has ended after an earlier one raised.
LaterJobAfterFailureWitness ==
    /\ Len(sched.runs) >= 2
    /\ sched.runs[1].out = "raised"
    /\ sched.runs[2].out = "ok"
    /\ sched.pc \in {"pending", "sleep"}

\* C30: after a create_backup call that returned an id, list_backups holds an
\* entry under that id (the lookup of restore_backup finds it): the trimming
\* step has not deleted what the call wrote.
CreateKeepsOwnArchive ==
    (last.op = "create" /\ last.out = "ok") => last.id \in CatalogNames

\* C31: after cleanup_old_backups, called on its own or as the trimming step
\* of create_backup, every compressed entry it selected whose archive file is
\* still there has its sidecar and is still listed: the archive file is
\* removed first, so a removal that raised has kept both.
CleanupLeavesNoBareArchive ==
    last.op \in {"cleanup", "create"}
        => \A e \in last.selected :
              (e.kind = "zip" /\ zips[e.name].exists)
                 => (sidecars[e.name].exists /\ e \in Catalog)

\* cleanup_old_backups selected a compressed entry, the removal of its archive
\* file raised, and the entry is still listed.
ArchiveRemovalFailedWitness ==
    /\ last.op \in {"cleanup", "create"}
    /\ \E e \in last.failed :
          /\ e.kind = "zip"
          /\ zips[e.name].exists
          /\ sidecars[e.name].exists
          /\ e \in Catalog

\* C32: a confirmed restore_backup call whose staged archive holds no content
\* subtree, and in which no step raised for the file system's own reasons,
\* leaves the content root as it was, has written the pre-restore snapshot of
\* an existing content root, removes the staging directory and returns True.
RestoreWithoutContentSubtree ==
    [][(pc = "finally" /\ pc' = "idle" /\ rs.staged /\ ~temp.content.exists
           /\ ~rs.fault)
          => /\ content' = rs.prior
             /\ rs.prior.exists => (rs.snap /\ pre'[rs.prename] = rs.prior)
             /\ temp' = NoTemp
             /\ last'.out = "true"]_vars

====
